---- MODULE Spec2Model ----
(***************************************************************************)
(* Pattern Definition Store (src/patterns/storage.py) and Pattern Matching *)
(* Engine (src/patterns/engine.py) of the screener, over the SQLite tables *)
(* screening_patterns, pattern_results_cache, fundamental_data and         *)
(* signals, and the batch detection of src/signals/engine.py that fills    *)
(* the signals table.                                                      *)
(*                                                                         *)
(* Every step of the model is one SQLite statement boundary that another   *)
(* connection can observe: a read, a committed write, or the commit of the *)
(* multi-statement transaction of save_pattern_results.                    *)
(***************************************************************************)
EXTENDS Integers, Sequences, FiniteSets, TLC

\* ---------------------------------------------------------------- bounds
NumStocks == 2
MaxClock == 1

\* ------------------------------------------------------------- universe
Stocks == 1..NumStocks
PresetIds == {"garp"}
CustomIds == {"my_pattern"}
PatternIds == PresetIds \cup CustomIds

\* Python None / SQL NULL: an optional value is <<>> or <<v>>.
None == <<>>
Some(v) == <<v>>
IsNone(o) == o = <<>>
Val(o) == o[1]

\* ------------------------------------------------------- sequence helpers
Range(s) == {s[i] : i \in DOMAIN s}

\* mutant: the slice is dropped and the whole list returned
TruncateDropped(s, limit) == s

\* list[:limit]
Truncate(s, limit) == SubSeq(s, 1, IF Len(s) < limit THEN Len(s) ELSE limit)

\* every enumeration order of a finite set (row order of a SELECT that has
\* no ORDER BY, or the order of rows that tie on the ORDER BY key)
Orderings(S) == {s \in [1..Cardinality(S) -> S] : Range(s) = S}

\* mutant: the list is left in the order the screens produced it
Unsorted(s, key) == s

\* list.sort(key=..., reverse=True) is stable: equal keys keep input order.
\* key is a function from the elements of s to their integer sort key.
RECURSIVE InsertDesc(_, _, _)
InsertDesc(x, s, key) ==
    IF s = <<>> THEN <<x>>
    ELSE IF key[Head(s)] >= key[x]
         THEN <<Head(s)>> \o InsertDesc(x, Tail(s), key)
         ELSE <<x>> \o s

RECURSIVE StableSortDesc(_, _)
StableSortDesc(s, key) ==
    IF s = <<>> THEN <<>>
    ELSE InsertDesc(s[Len(s)], StableSortDesc(SubSeq(s, 1, Len(s) - 1), key), key)

\* ------------------------------------------------------------- strings
\* A string is a sequence of characters so that lower(), ' '.join() and
\* the substring test `sig in joined` are computed, not assumed.
Lower(c) ==
    CASE c = "C" -> "c" [] c = "D" -> "d" [] c = "G" -> "g" [] c = "I" -> "i"
      [] c = "O" -> "o" [] c = "R" -> "r" [] c = "S" -> "s" [] OTHER -> c

LowerStr(str) == [i \in DOMAIN str |-> Lower(str[i])]

RECURSIVE JoinSpace(_)
JoinSpace(strs) ==
    IF strs = <<>> THEN <<>>
    ELSE IF Len(strs) = 1 THEN strs[1]
    ELSE strs[1] \o <<" ">> \o JoinSpace(Tail(strs))

IsSubstring(frag, str) ==
    \E i \in 0..(Len(str) - Len(frag)) : SubSeq(str, i + 1, i + Len(frag)) = frag

\* signal names the detectors emit, and fragments patterns ask for
GoldenCross == <<"G","o","l","d","e","n"," ","C","r","o","s","s">>
RSIOversold == <<"R","S","I"," ","O","v","e","r","s","o","l","d">>
DeathCross == <<"D","e","a","t","h"," ","C","r","o","s","s">>
FragGoldenCross == <<"g","o","l","d","e","n"," ","c","r","o","s","s">>
FragRSI == <<"R","S","I">>

\* ------------------------------------------------- pattern definitions
\* A criteria dict is kept with the set of keys it carries, so that `{}`
\* (falsy) differs from a dict whose 'signals' list is empty (truthy).
NoTechnical == [keys |-> {}, signals |-> <<>>, min_signal_strength |-> 0]
Technical(sigs, minStrength) ==
    [keys |-> {"signals", "min_signal_strength"}, signals |-> sigs,
     min_signal_strength |-> minStrength]

\* fundamental_criteria: a set of [metric, min, max], one per metric
Bound(metric, lo, hi) == [metric |-> metric, min |-> lo, max |-> hi]

\* sentinel "no limit" upper bound; the source's second sentinel,
\* 999999999999, is beyond the integers of the model and no bound carries it
Sentinel999 == 999
IsSentinel(v) == v = Sentinel999

\* columns of fundamental_data the screen can constrain (the model carries
\* two of them)
fundamental_data_columns == {"pe_ratio", "pb_ratio"}

\* dict.get(column) of a fundamental_data row
Column(row, metric) ==
    IF metric = "pe_ratio" THEN row.pe_ratio
    ELSE IF metric = "pb_ratio" THEN row.pb_ratio
    ELSE None

\* the SQL conditions built from one criterion; a NULL column fails both
MeetsBound(row, b) ==
    LET v == Column(row, b.metric) IN
    /\ (~IsNone(b.min)) => (~IsNone(v) /\ Val(v) >= Val(b.min))
    /\ (~IsNone(b.max) /\ ~IsSentinel(Val(b.max)))
         => (~IsNone(v) /\ Val(v) <= Val(b.max))

\* does the criterion contribute at least one condition to the WHERE clause
HasCondition(b) ==
    /\ b.metric \in fundamental_data_columns
    /\ \/ ~IsNone(b.min)
       \/ (~IsNone(b.max) /\ ~IsSentinel(Val(b.max)))

DefaultScore == 80

\* _generic_fundamental_screen: the rows of fundamental_data (every
\* quarterly report, the query does not pick the latest) that pass all
\* conditions, SELECT DISTINCT on the value columns, each with score = 80;
\* no condition at all gives no rows
FundamentalMatches(criteria, fundamental_data) ==
    IF \A b \in criteria : ~HasCondition(b) THEN {}
    ELSE {[stock_id |-> r.stock_id, pe_ratio |-> r.pe_ratio,
           pb_ratio |-> r.pb_ratio, score |-> DefaultScore] :
            r \in {x \in fundamental_data :
                     \A b \in criteria : HasCondition(b) => MeetsBound(x, b)}}

\* the SELECT has no ORDER BY: any row order
_screen_fundamentals(criteria, fundamental_data) ==
    Orderings(FundamentalMatches(criteria, fundamental_data))

\* ---------------------------------------------------- technical screen
RecencyDays == 7

\* WHERE strength >= ? AND is_active = 1 AND detected_date > date('now','-7 days')
SignalRows(min_strength, signals, today) ==
    {r \in signals : /\ r.strength >= min_strength
                     /\ r.is_active
                     /\ r.detected_date > today - RecencyDays}

\* ORDER BY stock_id, strength DESC; rows that tie come in any order
SignalQuery(min_strength, signals, today) ==
    {q \in Orderings(SignalRows(min_strength, signals, today)) :
        \A i, j \in DOMAIN q : i < j =>
            \/ q[i].stock_id < q[j].stock_id
            \/ (q[i].stock_id = q[j].stock_id /\ q[i].strength >= q[j].strength)}

\* keys of stocks_signals in dict insertion order
RECURSIVE StockOrder(_)
StockOrder(rows) ==
    IF rows = <<>> THEN <<>>
    ELSE LET rest == StockOrder(SubSeq(rows, 1, Len(rows) - 1))
             last == rows[Len(rows)].stock_id
         IN IF last \in Range(rest) THEN rest ELSE Append(rest, last)

RECURSIVE SumStrength(_)
SumStrength(sigs) ==
    IF sigs = <<>> THEN 0 ELSE Head(sigs).strength + SumStrength(Tail(sigs))

\* the signals of one stock, in query order, as stored in stocks_signals
SignalsOf(rows, sid) ==
    LET mine == SelectSeq(rows, LAMBDA r : r.stock_id = sid)
    IN [i \in DOMAIN mine |->
          [signal_name |-> mine[i].signal_name, strength |-> mine[i].strength]]

\* any(sig.lower() in ' '.join(signal_names) for sig in required_signals)
has_required_signal(required, sigs) ==
    LET joined == JoinSpace([i \in DOMAIN sigs |-> LowerStr(sigs[i].signal_name)])
    IN \E k \in DOMAIN required : IsSubstring(LowerStr(required[k]), joined)

\* dict.get('signals', []) and dict.get('min_signal_strength', 0)
RequiredSignals(criteria) ==
    IF "signals" \in criteria.keys THEN criteria.signals ELSE <<>>

MinStrength(criteria) ==
    IF "min_signal_strength" \in criteria.keys THEN criteria.min_signal_strength ELSE 0

\* _screen_technical over the rows the signals query returned
_screen_technical(criteria, rows) ==
    IF RequiredSignals(criteria) = <<>> THEN <<>>
    ELSE LET order == StockOrder(rows)
             hit == SelectSeq(order,
                      LAMBDA sid : has_required_signal(RequiredSignals(criteria),
                                                       SignalsOf(rows, sid)))
         IN [i \in DOMAIN hit |->
               [stock_id |-> hit[i],
                signals |-> SignalsOf(rows, hit[i]),
                signal_strength |->
                    SumStrength(SignalsOf(rows, hit[i])) \div Len(SignalsOf(rows, hit[i]))]]

\* ------------------------------------------------------ merge and score
\* mutant: every row of the screen becomes a result of its own
EveryRow(rows) == rows

\* first row of each stock_id, in order (`if stock_id not in matching_stocks`)
RECURSIVE FirstPerStock(_)
FirstPerStock(rows) ==
    IF rows = <<>> THEN <<>>
    ELSE LET rest == FirstPerStock(SubSeq(rows, 1, Len(rows) - 1))
             last == rows[Len(rows)]
         IN IF \E i \in DOMAIN rest : rest[i].stock_id = last.stock_id
            THEN rest ELSE Append(rest, last)

TechnicalOf(tmatches, sid) ==
    SelectSeq(tmatches, LAMBDA t : t.stock_id = sid)

\* mutant: a combined pattern keeps the stocks without a technical match
TechnicalNotRequired(result) == TRUE

\* `if v['technical_score'] > 0`, the filter of a combined pattern that
\* lists signals
MeetsTechnical(result) == result.technical_score > 0

\* _execute_pattern: list(matching_stocks.values()), given what the two
\* screens returned
_execute_pattern(pattern, fmatches, tmatches) ==
    LET tc == pattern.technical_criteria
        fc == pattern.fundamental_criteria
        seeded == FirstPerStock(fmatches)
        fromFund == [i \in DOMAIN seeded |->
                       [stock_id |-> seeded[i].stock_id,
                        matched_fundamentals |-> Some(seeded[i]),
                        matched_signals |-> <<>>,
                        fundamental_score |-> seeded[i].score,
                        technical_score |-> 0]]
        pure == FirstPerStock(tmatches)
        fromTech == [i \in DOMAIN pure |->
                       LET t == TechnicalOf(tmatches, pure[i].stock_id)
                       IN [stock_id |-> pure[i].stock_id,
                           matched_fundamentals |-> None,
                           matched_signals |-> t[Len(t)].signals,
                           fundamental_score |-> 0,
                           technical_score |-> t[Len(t)].signal_strength]]
        enhanced == [i \in DOMAIN fromFund |->
                       LET t == TechnicalOf(tmatches, fromFund[i].stock_id)
                       IN IF t = <<>> THEN fromFund[i]
                          ELSE [fromFund[i] EXCEPT
                                  !.matched_signals = t[Len(t)].signals,
                                  !.technical_score = t[Len(t)].signal_strength]]
    IN IF tc.keys = {} /\ fc = {} THEN <<>>
       ELSE IF tc.keys = {} THEN fromFund
       ELSE IF fc = {} THEN fromTech
       ELSE IF RequiredSignals(tc) # <<>>
            THEN SelectSeq(enhanced, LAMBDA r : MeetsTechnical(r))
            ELSE enhanced

\* the pairs (F, T) in 0..100 where the double F*0.6 + T*0.4 falls just
\* below the exact integer value, so int() yields one less
FloatShort ==
    {<<6, 1>>, <<12, 2>>, <<24, 4>>, <<31, 1>>, <<36, 1>>, <<41, 1>>,
     <<46, 1>>, <<48, 3>>, <<48, 8>>, <<51, 1>>, <<57, 2>>, <<57, 7>>,
     <<62, 2>>, <<62, 7>>, <<67, 2>>, <<67, 7>>, <<72, 2>>, <<72, 7>>,
     <<77, 2>>, <<77, 7>>, <<82, 2>>, <<82, 7>>, <<87, 2>>, <<87, 7>>,
     <<92, 2>>, <<92, 7>>, <<96, 1>>, <<96, 6>>, <<96, 11>>, <<96, 16>>,
     <<97, 2>>, <<97, 7>>}

\* int(fundamental_score * 0.6 + technical_score * 0.4)
CombinedScore(F, T) ==
    ((6 * F + 4 * T) \div 10) - (IF <<F, T>> \in FloatShort THEN 1 ELSE 0)

\* mutant: the weighted formula is applied to every pattern
MatchScoreAlwaysWeighted(pattern, result) ==
    CombinedScore(result.fundamental_score, result.technical_score)

MatchScore(pattern, result) ==
    IF pattern.fundamental_criteria # {} /\ pattern.technical_criteria.keys # {}
    THEN CombinedScore(result.fundamental_score, result.technical_score)
    ELSE IF pattern.fundamental_criteria # {} THEN result.fundamental_score
    ELSE result.technical_score

\* x.get('matched_fundamentals', {}).get(sort_by, 0) or 0
FundamentalKey(result, sort_by) ==
    IF IsNone(result.matched_fundamentals) THEN 0
    ELSE LET row == Val(result.matched_fundamentals)
         IN IF sort_by = "pe_ratio"
            THEN (IF IsNone(row.pe_ratio) THEN 0 ELSE Val(row.pe_ratio))
            ELSE IF sort_by = "pb_ratio"
            THEN (IF IsNone(row.pb_ratio) THEN 0 ELSE Val(row.pb_ratio))
            ELSE IF sort_by = "score" THEN row.score
            ELSE IF sort_by = "stock_id" THEN row.stock_id
            ELSE 0

SortKey(result, sort_by) ==
    IF sort_by = "match_score" THEN result.match_score
    ELSE FundamentalKey(result, sort_by)

\* _score_results: set match_score on every result, then the stable sort
_score_results(results, pattern) ==
    LET scored == [i \in DOMAIN results |->
                     [stock_id |-> results[i].stock_id,
                      matched_fundamentals |-> results[i].matched_fundamentals,
                      matched_signals |-> results[i].matched_signals,
                      fundamental_score |-> results[i].fundamental_score,
                      technical_score |-> results[i].technical_score,
                      match_score |-> MatchScore(pattern, results[i])]]
        key == [r \in Range(scored) |-> SortKey(r, pattern.sort_by)]
    IN StableSortDesc(scored, key)

\* ======================================================== the detectors
\* The four category detectors of src/signals, applied to a data frame of
\* daily bars: the rows are ordered by date, `index` holds the dates and
\* `columns` one series per column name. A float is an integer here (prices
\* and indicators are taken in units that make every operation exact) and
\* NaN is None.
MaxBars == 8

NaN == None

\* float comparison: every comparison with NaN is False
Lt(a, b) == ~IsNone(a) /\ ~IsNone(b) /\ Val(a) < Val(b)
Gt(a, b) == Lt(b, a)

Min(a, b) == IF a < b THEN a ELSE b

\* 'name' in df.columns, df[name]
HasColumn(df, name) == name \in DOMAIN df.columns
Col(df, name) == df.columns[name]

\* series.iloc[index] of a position index >= 0
iloc(series, index) == series[index + 1]

\* series.iloc[start:stop]: a negative bound counts from the end, bounds
\* beyond the series are clipped, an empty range gives an empty series
iloc_slice(series, start, stop) ==
    LET n == Len(series)
        bound(i) == IF i < 0 THEN (IF i + n < 0 THEN 0 ELSE i + n) ELSE Min(i, n)
    IN IF bound(start) < bound(stop)
       THEN SubSeq(series, bound(start) + 1, bound(stop)) ELSE <<>>

RECURSIVE SumSeq(_)
SumSeq(s) == IF s = <<>> THEN 0 ELSE Head(s) + SumSeq(Tail(s))

\* np.polyfit(np.arange(Len(y.index)), y, 1)[0]: the least-squares slope of y,
\* here times the positive constant 2 * sum((x - mean(x))^2) of the window
\* length. An empty window raises TypeError; with a NaN in y the LAPACK
\* routine either fails (LinAlgError) or gives NaN, depending on the build.
Raises == [raises |-> TRUE]
Returns(v) == [raises |-> FALSE, value |-> v]
polyfit_slope(y) ==
    IF y = <<>> THEN {Raises}
    ELSE IF \E i \in DOMAIN y : IsNone(y[i]) THEN {Raises, Returns(NaN)}
    ELSE {Returns(Some(SumSeq([i \in DOMAIN y |->
                                  (2 * (i - 1) - (Len(y) - 1)) * Val(y[i])])))}

\* Signal(...): the fields the claims read, with the base strength and the
\* confirmations the strength was computed from (a signal built with a
\* literal strength has that strength as its base and no confirmation)
Signal(name, type, strength, date, base, volume_confirmed, trend_aligned, extra) ==
    [signal_name |-> name, signal_type |-> type, strength |-> strength,
     date |-> date, base_strength |-> base, volume_confirmed |-> volume_confirmed,
     trend_aligned |-> trend_aligned, multiple_indicators |-> extra]

\* BaseSignalDetector.calculate_strength
calculate_strength(base_strength, volume_confirmed, trend_aligned, multiple_indicators) ==
    Min(base_strength + (IF volume_confirmed THEN 20 ELSE 0)
                      + (IF trend_aligned THEN 15 ELSE 0)
                      + Min(multiple_indicators * 10, 30),
        100)

\* mutant: the crossunder test is a copy of the crossover test
CrossunderAsCrossover(series1, series2, index) ==
    /\ index >= 1
    /\ Lt(iloc(series1, index - 1), iloc(series2, index - 1))
    /\ Gt(iloc(series1, index), iloc(series2, index))

is_crossover(series1, series2, index) ==
    /\ index >= 1
    /\ Lt(iloc(series1, index - 1), iloc(series2, index - 1))
    /\ Gt(iloc(series1, index), iloc(series2, index))

is_crossunder(series1, series2, index) ==
    /\ index >= 1
    /\ Gt(iloc(series1, index - 1), iloc(series2, index - 1))
    /\ Lt(iloc(series1, index), iloc(series2, index))

\* volume > 1.5 x its average
get_volume_confirmation(df, index) ==
    /\ HasColumn(df, "volume_sma")
    /\ ~IsNone(iloc(Col(df, "volume"), index))
    /\ ~IsNone(iloc(Col(df, "volume_sma"), index))
    /\ 2 * Val(iloc(Col(df, "volume"), index))
          > 3 * Val(iloc(Col(df, "volume_sma"), index))

get_trend_alignment(df, index, bullish) ==
    /\ HasColumn(df, "sma_50") /\ HasColumn(df, "sma_200")
    /\ IF bullish
       THEN Gt(iloc(Col(df, "sma_50"), index), iloc(Col(df, "sma_200"), index))
       ELSE Lt(iloc(Col(df, "sma_50"), index), iloc(Col(df, "sma_200"), index))

\* mutant: the signals are dated with the first bar of the frame
FirstDate(df) == df.index[1]

\* latest_date = df.index[Len(df.index) - 1]
latest_date(df) == df.index[Len(df.index)]

\* the guard every detect() starts with
TooShort(df) == Len(df.index) < 2

\* ---- TrendSignalDetector
\* trend_strong of the two SMA crosses: ADX above 25
TrendStrong(df, index) ==
    HasColumn(df, "adx") /\ Gt(iloc(Col(df, "adx"), index), Some(25))

detect_golden_cross(df, index, date) ==
    IF is_crossover(Col(df, "sma_50"), Col(df, "sma_200"), index)
    THEN LET volume_conf == get_volume_confirmation(df, index)
             trend_strong == TrendStrong(df, index)
         IN <<Signal("Golden Cross", "trend",
                     calculate_strength(60, volume_conf, trend_strong, 0),
                     date, 60, volume_conf, trend_strong, 0)>>
    ELSE <<>>

detect_death_cross(df, index, date) ==
    IF is_crossunder(Col(df, "sma_50"), Col(df, "sma_200"), index)
    THEN LET volume_conf == get_volume_confirmation(df, index)
             trend_strong == TrendStrong(df, index)
         IN <<Signal("Death Cross", "trend",
                     calculate_strength(60, volume_conf, trend_strong, 0),
                     date, 60, volume_conf, trend_strong, 0)>>
    ELSE <<>>

detect_macd_crossover(df, index, date) ==
    LET macd_line == Col(df, "macd_line")
        volume_conf == get_volume_confirmation(df, index)
        above_zero == Gt(iloc(macd_line, index), Some(0))
        below_zero == Lt(iloc(macd_line, index), Some(0))
        extra(flag) == IF flag THEN 1 ELSE 0
    IN IF is_crossover(macd_line, Col(df, "macd_signal"), index)
       THEN LET trend_aligned == get_trend_alignment(df, index, TRUE)
            IN <<Signal("MACD Bullish Crossover", "trend",
                        calculate_strength(55, volume_conf, trend_aligned,
                                           extra(above_zero)),
                        date, 55, volume_conf, trend_aligned, extra(above_zero))>>
       ELSE IF is_crossunder(macd_line, Col(df, "macd_signal"), index)
       THEN LET trend_aligned == get_trend_alignment(df, index, FALSE)
            IN <<Signal("MACD Bearish Crossover", "trend",
                        calculate_strength(55, volume_conf, trend_aligned,
                                           extra(below_zero)),
                        date, 55, volume_conf, trend_aligned, extra(below_zero))>>
       ELSE <<>>

\* the two windows of detect_ma_slope_change at a position index >= 5
SlopeWindow(df, index) == iloc_slice(Col(df, "sma_50"), index - 5, index + 1)
PriorSlopeWindow(df, index) == iloc_slice(Col(df, "sma_50"), index - 6, index)

\* the decision of detect_ma_slope_change once both fits returned: slope > 0
\* and slope > slope_prev * 1.5, or slope < 0 and slope < slope_prev * 1.5
\* (a comparison with a NaN slope_prev is False)
SlopeSignal(fit, fit_prev, date) ==
    IF fit.raises \/ fit_prev.raises THEN Raises
    ELSE IF /\ Gt(fit.value, Some(0)) /\ ~IsNone(fit_prev.value)
            /\ 2 * Val(fit.value) > 3 * Val(fit_prev.value)
    THEN Returns(<<Signal("MA Uptrend Acceleration", "trend", 40, date,
                          40, FALSE, FALSE, 0)>>)
    ELSE IF /\ Lt(fit.value, Some(0)) /\ ~IsNone(fit_prev.value)
            /\ 2 * Val(fit.value) < 3 * Val(fit_prev.value)
    THEN Returns(<<Signal("MA Downtrend Acceleration", "trend", 40, date,
                          40, FALSE, FALSE, 0)>>)
    ELSE Returns(<<>>)

\* detect_ma_slope_change: every outcome the call can have
detect_ma_slope_change(df, index, date) ==
    IF index < 5 THEN {Returns(<<>>)}
    ELSE IF \E i \in DOMAIN SlopeWindow(df, index) : IsNone(SlopeWindow(df, index)[i])
    THEN {Returns(<<>>)}
    ELSE {SlopeSignal(fit, fit_prev, date) :
             fit \in polyfit_slope(SlopeWindow(df, index)),
             fit_prev \in polyfit_slope(PriorSlopeWindow(df, index))}

\* TrendSignalDetector.detect: every outcome of the call. The frames carry no
\* sma_20 and no macd_histogram column, so the branches of the fast cross and
\* of the histogram reversal are not taken.
TrendSignalDetector_detect(df) ==
    IF TooShort(df) THEN {Returns(<<>>)}
    ELSE LET latest_index == Len(df.index) - 1
             date == latest_date(df)
             crosses ==
                IF HasColumn(df, "sma_50") /\ HasColumn(df, "sma_200")
                THEN detect_golden_cross(df, latest_index, date)
                        \o detect_death_cross(df, latest_index, date)
                ELSE <<>>
             macd ==
                IF HasColumn(df, "macd_line") /\ HasColumn(df, "macd_signal")
                THEN detect_macd_crossover(df, latest_index, date)
                ELSE <<>>
             slopes ==
                IF HasColumn(df, "sma_50")
                THEN detect_ma_slope_change(df, latest_index, date)
                ELSE {Returns(<<>>)}
         IN {IF s.raises THEN Raises ELSE Returns(crosses \o macd \o s.value) :
                s \in slopes}

\* ---- MomentumSignalDetector
detect_cci_extreme(df, index, date) ==
    LET cci == iloc(Col(df, "cci"), index)
    IN IF Gt(cci, Some(100))
       THEN <<Signal("CCI Overbought", "momentum", 50, date, 50, FALSE, FALSE, 0)>>
       ELSE IF Lt(cci, Some(-100))
       THEN <<Signal("CCI Oversold", "momentum", 50, date, 50, FALSE, FALSE, 0)>>
       ELSE <<>>

\* MomentumSignalDetector.detect. The frames carry no rsi, stoch_k, stoch_d
\* or williams_r column, so the RSI, stochastic, Williams %R and divergence
\* branches are not taken.
MomentumSignalDetector_detect(df) ==
    IF TooShort(df) THEN {Returns(<<>>)}
    ELSE LET latest_index == Len(df.index) - 1
             date == latest_date(df)
         IN {Returns(IF HasColumn(df, "cci")
                     THEN detect_cci_extreme(df, latest_index, date) ELSE <<>>)}

\* ---- VolatilitySignalDetector
\* percent_b is in hundredths. The squeeze compares bb_width with half the
\* mean of the 20 widths before it (NaN skipped by mean()).
detect_bollinger_signals(df, index, date) ==
    LET close == Col(df, "close")
        bb_upper == Col(df, "bb_upper")
        bb_lower == Col(df, "bb_lower")
        percent_b == iloc(Col(df, "percent_b"), index)
        widths == SelectSeq(iloc_slice(Col(df, "bb_width"), index - 20, index),
                            LAMBDA w : ~IsNone(w))
        squeeze ==
            IF /\ index >= 20
               /\ widths # <<>>
               /\ ~IsNone(iloc(Col(df, "bb_width"), index))
               /\ 2 * Len(widths) * Val(iloc(Col(df, "bb_width"), index))
                     < SumSeq([i \in DOMAIN widths |-> Val(widths[i])])
            THEN <<Signal("Bollinger Band Squeeze", "volatility", 55, date, 55, FALSE, FALSE, 0)>>
            ELSE <<>>
        volume_conf == get_volume_confirmation(df, index)
        breakout ==
            IF index > 0 /\ Lt(iloc(close, index - 1), iloc(bb_upper, index - 1))
                         /\ Gt(iloc(close, index), iloc(bb_upper, index))
            THEN <<Signal("Bollinger Band Bullish Breakout", "volatility",
                          calculate_strength(60, volume_conf, FALSE, 0),
                          date, 60, volume_conf, FALSE, 0)>>
            ELSE IF index > 0 /\ Gt(iloc(close, index - 1), iloc(bb_lower, index - 1))
                              /\ Lt(iloc(close, index), iloc(bb_lower, index))
            THEN <<Signal("Bollinger Band Bearish Breakout", "volatility",
                          calculate_strength(60, volume_conf, FALSE, 0),
                          date, 60, volume_conf, FALSE, 0)>>
            ELSE <<>>
        walking ==
            IF Gt(percent_b, Some(90))
            THEN <<Signal("Walking Upper Band", "volatility", 50, date, 50, FALSE, FALSE, 0)>>
            ELSE IF Lt(percent_b, Some(10))
            THEN <<Signal("Walking Lower Band", "volatility", 50, date, 50, FALSE, FALSE, 0)>>
            ELSE <<>>
    IN squeeze \o breakout \o walking

\* VolatilitySignalDetector.detect. The frames carry no atr column, so the
\* ATR branch is not taken.
VolatilitySignalDetector_detect(df) ==
    IF TooShort(df) THEN {Returns(<<>>)}
    ELSE {Returns(IF \A c \in {"bb_upper", "bb_lower", "bb_width", "percent_b"} :
                        HasColumn(df, c)
                  THEN detect_bollinger_signals(df, Len(df.index) - 1, latest_date(df))
                  ELSE <<>>)}

\* ---- VolumeSignalDetector
\* config 'volume_breakout_threshold', default 2.0
volume_breakout_threshold == 2

\* detect_volume_breakout: volume_ratio = volume / volume_sma; the frames
\* hold volumes that make the ratio and the bonus whole numbers
detect_volume_breakout(df, index, date) ==
    LET current_volume == iloc(Col(df, "volume"), index)
        avg_volume == iloc(Col(df, "volume_sma"), index)
    IN IF IsNone(avg_volume) \/ avg_volume = Some(0) \/ IsNone(current_volume)
       THEN <<>>
       ELSE IF Val(current_volume) > volume_breakout_threshold * Val(avg_volume)
       THEN LET strength_bonus ==
                   Min(((Val(current_volume)
                            - volume_breakout_threshold * Val(avg_volume)) * 5)
                          \div Val(avg_volume), 20)
                signal_name ==
                   IF Gt(iloc(Col(df, "close"), index), iloc(Col(df, "close"), index - 1))
                   THEN "Volume Breakout Bullish" ELSE "Volume Breakout Bearish"
            IN <<Signal(signal_name, "volume", Min(65 + strength_bonus, 100),
                        date, 65, FALSE, FALSE, 0)>>
       ELSE <<>>

detect_mfi_extreme(df, index, date) ==
    LET mfi == iloc(Col(df, "mfi"), index)
    IN IF Lt(mfi, Some(20))
       THEN <<Signal("MFI Oversold", "volume", 50, date, 50, FALSE, FALSE, 0)>>
       ELSE IF Gt(mfi, Some(80))
       THEN <<Signal("MFI Overbought", "volume", 50, date, 50, FALSE, FALSE, 0)>>
       ELSE <<>>

\* VolumeSignalDetector.detect. The frames carry no obv and no cmf column, so
\* the OBV and Chaikin branches are not taken.
VolumeSignalDetector_detect(df) ==
    IF TooShort(df) THEN {Returns(<<>>)}
    ELSE LET latest_index == Len(df.index) - 1
             date == latest_date(df)
         IN {Returns((IF HasColumn(df, "volume_sma")
                      THEN detect_volume_breakout(df, latest_index, date) ELSE <<>>)
                  \o (IF HasColumn(df, "mfi")
                      THEN detect_mfi_extreme(df, latest_index, date) ELSE <<>>))}

\* ---- the frames
\* a series of n bars from its values counted back from the last bar
\* (shape[0] is the last bar), a constant series, a frame of n daily bars
\* dated 1..n
Series(shape, n) == [i \in 1..n |-> shape[n - i]]
Constant(v, n) == [i \in 1..n |-> v]
Frame(n, columns) == [index |-> [i \in 1..n |-> i], columns |-> columns]

\* the 50-bar average: rising and falling at a steady rate, accelerating up
\* and down, turning from falling to rising, not yet defined on the oldest
\* bars, and not defined at all
SmaShapes ==
    { [k \in 0..(MaxBars - 1) |-> Some(100 - 2 * k)],
      [k \in 0..(MaxBars - 1) |-> Some(100 + 2 * k)],
      [k \in 0..(MaxBars - 1) |-> Some(200 - 10 * k + k * k)],
      [k \in 0..(MaxBars - 1) |-> Some(200 + 10 * k - k * k)],
      [k \in 0..(MaxBars - 1) |-> Some(10 * (IF k < 3 THEN 3 - k ELSE k - 3))],
      [k \in 0..(MaxBars - 1) |-> IF k >= 6 THEN NaN ELSE Some(100 - 2 * k)],
      [k \in 0..(MaxBars - 1) |-> NaN] }

\* MACD line and signal line: a cross up above zero, a cross up below zero,
\* a cross down below zero, no value
MacdCases ==
    { [line |-> [k \in 0..(MaxBars - 1) |-> Some(3 - 2 * k)], signal |-> Some(2)],
      [line |-> [k \in 0..(MaxBars - 1) |-> Some(0 - 1 - 2 * k)], signal |-> Some(0 - 2)],
      [line |-> [k \in 0..(MaxBars - 1) |-> Some(2 * k - 3)], signal |-> Some(0 - 2)],
      [line |-> [k \in 0..(MaxBars - 1) |-> NaN], signal |-> NaN] }

\* the frames of the trend detector; of the momentum detector; of the
\* volatility detector, where the bands are 95 and 105 on every bar and the
\* close crosses one of them on the last bar or stays between them; of the
\* volume detector, where the close rises or falls by one a day
Frames ==
    { Frame(n, ("close" :> Constant(Some(100), n))
               @@ ("volume" :> Constant(Some(volume), n))
               @@ ("volume_sma" :> Constant(volume_sma, n))
               @@ ("sma_50" :> Series(sma_50, n))
               @@ ("sma_200" :> Constant(sma_200, n))
               @@ ("adx" :> Constant(adx, n))
               @@ ("macd_line" :> Series(macd.line, n))
               @@ ("macd_signal" :> Constant(macd.signal, n))) :
        n \in 0..MaxBars, volume \in {100, 300}, volume_sma \in {NaN, Some(100)},
        sma_50 \in SmaShapes, sma_200 \in {NaN, Some(99), Some(101)},
        adx \in {NaN, Some(20), Some(30)}, macd \in MacdCases }
    \cup
    { Frame(n, ("close" :> Constant(Some(100), n))
               @@ ("cci" :> Constant(cci, n))) :
        n \in 0..MaxBars, cci \in {NaN, Some(0 - 150), Some(0), Some(150)} }
    \cup
    { Frame(n, ("close" :> Series([k \in 0..(MaxBars - 1) |->
                                     IF k = 0 THEN Some(last) ELSE Some(100)], n))
               @@ ("volume" :> Constant(Some(volume), n))
               @@ ("volume_sma" :> Constant(Some(100), n))
               @@ ("bb_upper" :> Constant(Some(105), n))
               @@ ("bb_lower" :> Constant(Some(95), n))
               @@ ("bb_width" :> Constant(Some(10), n))
               @@ ("percent_b" :> Constant(percent_b, n))) :
        n \in 0..MaxBars, last \in {90, 100, 110}, volume \in {100, 300},
        percent_b \in {NaN, Some(5), Some(50), Some(95)} }
    \cup
    { Frame(n, ("close" :> Series([k \in 0..(MaxBars - 1) |->
                                     Some(100 - direction * k)], n))
               @@ ("volume" :> Constant(Some(volume), n))
               @@ ("volume_sma" :> Constant(volume_sma, n))
               @@ ("mfi" :> Constant(mfi, n))) :
        n \in 0..MaxBars, direction \in {0 - 1, 1},
        volume \in {100, 160, 300, 700},
        volume_sma \in {NaN, Some(0), Some(100)},
        mfi \in {NaN, Some(10), Some(50), Some(90)} }

\* no detector was applied
NoDetection == [detector |-> "", df |-> Frame(0, <<>>), out |-> Returns(<<>>)]

\* ------------------------------------------------------------ the state
VARIABLES
    patterns,           \* table screening_patterns: pattern_id -> None | Some(row)
    cache,              \* table pattern_results_cache, committed rows
    fundamental_data,   \* table fundamental_data, one row per quarterly report
    signals,            \* table signals
    now,                \* wall clock, hours
    run,                \* the PatternEngine.run_pattern call in flight
    store,              \* the PatternStorage create/update/delete call in flight
    batch,              \* the SignalEngine.detect_signals_for_all_stocks call in flight
    detection           \* one detector applied to one data frame, and its outcome

vars == <<patterns, cache, fundamental_data, signals, now, run, store, batch,
          detection>>

HoursPerDay == 24
Today == now \div HoursPerDay

\* the storage connections never issue PRAGMA foreign_keys = ON, so SQLite
\* does not enforce the cache table's FOREIGN KEY ... ON DELETE CASCADE
ForeignKeys == FALSE

\* ------------------------------------------------------------ the cache
CacheRow(pattern_id, result, t) ==
    [pattern_id |-> pattern_id,
     stock_id |-> result.stock_id,
     match_score |-> result.match_score,
     matched_signals |-> result.matched_signals,
     matched_fundamentals |-> result.matched_fundamentals,
     last_updated |-> t]

RowsOf(c, pattern_id) == {r \in c : r.pattern_id = pattern_id}

\* DELETE FROM pattern_results_cache WHERE pattern_id = ?
WithoutPattern(c, pattern_id) == c \ RowsOf(c, pattern_id)

\* datetime(last_updated) > datetime('now', '-N hours')
IsFresh(row, max_age_hours, t) == row.last_updated > t - max_age_hours

\* mutant: the connection runs in autocommit, the DELETE is committed at once
AutocommitDelete(c, pattern_id) == {r \in c : r.pattern_id # pattern_id}

\* the committed table after the DELETE of save_pattern_results: sqlite3
\* opens a transaction implicitly at the first DML statement, so the delete
\* reaches no other connection before commit()
AfterUncommittedDelete(c, pattern_id) == c

\* mutant: an empty result list is not saved, the old rows stay
ReplacedUnlessEmpty(c, pattern_id, rows) ==
    IF rows = {} THEN c ELSE (c \ {r \in c : r.pattern_id = pattern_id}) \cup rows

\* mutant: the DELETE is left out, new rows are merged into the old ones
Merged(c, pattern_id, rows) == c \cup rows

\* the committed table after commit(): the rows of pattern_id replaced
Replaced(c, pattern_id, rows) == WithoutPattern(c, pattern_id) \cup rows

\* get_pattern_results: the fresh rows ORDER BY match_score DESC (rows that
\* tie come in any order); the caller gets None for an empty list
get_pattern_results(c, pattern_id, max_age_hours, t) ==
    LET rows == {r \in RowsOf(c, pattern_id) : IsFresh(r, max_age_hours, t)}
    IN {q \in Orderings(rows) :
          \A i \in 1..(Len(q) - 1) : q[i].match_score >= q[i + 1].match_score}

\* ----------------------------------------------------------- the inputs
\* the preset seeded by insert_preset_patterns, on the metric the model carries
GarpPreset ==
    [pattern_name |-> "GARP - Growth at Reasonable Price",
     technical_criteria |-> NoTechnical,
     fundamental_criteria |-> {Bound("pe_ratio", Some(0), Some(25))},
     sort_by |-> "peg_ratio",
     is_preset |-> TRUE,
     updated_at |-> 0]

\* pattern_data dicts handed to create_pattern
PatternData(id, name, tc, fc, sort_by, is_preset) ==
    [pattern_id |-> id, pattern_name |-> name, technical_criteria |-> tc,
     fundamental_criteria |-> fc, sort_by |-> sort_by, is_preset |-> is_preset]

PatternInputsFor(id) ==
    { PatternData(id, "Cheap", NoTechnical,
                  {Bound("pe_ratio", Some(0), Some(Sentinel999))}, "match_score", FALSE),
      PatternData(id, "Quality Reversal", Technical(<<FragGoldenCross, FragRSI>>, 50),
                  {Bound("pe_ratio", Some(0), None)}, "pe_ratio", TRUE),
      PatternData(id, "Empty", NoTechnical, {}, "match_score", FALSE) }

PatternInputs == UNION {PatternInputsFor(id) : id \in PatternIds}

\* updates dicts handed to update_pattern: the keys present and their values
allowed_fields == {"pattern_name", "description", "category",
                   "technical_criteria", "fundamental_criteria", "sort_by"}

Updates(keys, tc, fc, sort_by) ==
    [keys |-> keys, technical_criteria |-> tc, fundamental_criteria |-> fc,
     sort_by |-> sort_by]

UpdateInputs ==
    { Updates({}, NoTechnical, {}, "match_score"),
      Updates({"is_preset"}, NoTechnical, {}, "match_score"),
      Updates({"sort_by"}, NoTechnical, {}, "match_score"),
      Updates({"technical_criteria", "fundamental_criteria"},
              Technical(<<FragRSI>>, 0), {}, "match_score") }

CacheAges == {1, 24}
Limits == {1, 100}

\* the pe_ratio instrument sid reports
PeOf(sid) == 10 * sid

\* -------------------------------------------------------------- Init
IdleRun ==
    [pc |-> "idle", pattern_id |-> "", use_cache |-> FALSE, max_age |-> 0,
     limit |-> 0, pattern |-> None, results |-> <<>>, old |-> {},
     inserted |-> <<>>, outcome |-> "", returned |-> None]

IdleStore == [pc |-> "idle", op |-> "", pattern_id |-> "", outcome |-> ""]

\* stats is the dictionary detect_signals_for_all_stocks returns
NoStats == [total_stocks |-> 0, successful |-> 0, failed |-> 0, skipped |-> 0,
            total_signals |-> 0]

\* failures: the instruments whose error the loop has logged
IdleBatch == [pc |-> "idle", stocks |-> <<>>, i |-> 0, skip_existing |-> FALSE,
              failures |-> {}, stats |-> NoStats]

Init ==
    /\ patterns = [id \in PatternIds |-> IF id \in PresetIds THEN Some(GarpPreset) ELSE None]
    /\ cache = {}
    /\ fundamental_data = {[stock_id |-> sid, period |-> 1, pe_ratio |-> Some(PeOf(sid)),
                             pb_ratio |-> Some(sid)] : sid \in Stocks}
    /\ signals = {[id |-> sid, stock_id |-> sid,
                    signal_name |-> IF sid = 1 THEN GoldenCross ELSE RSIOversold,
                    strength |-> IF sid = 1 THEN 90 ELSE 60,
                    is_active |-> TRUE, detected_date |-> 0] : sid \in Stocks}
    /\ now = 0
    /\ run = IdleRun
    /\ store = IdleStore
    /\ batch = IdleBatch
    /\ detection = NoDetection

\* ------------------------------------------------- PatternEngine.run_pattern
\* the call starts with the cache lookup (when use_cache) and returns the
\* cached rows if there are any; otherwise it goes on to load the pattern
CallRun(pattern_id, use_cache, max_age, limit) ==
    [IdleRun EXCEPT !.pattern_id = pattern_id, !.use_cache = use_cache,
                    !.max_age = max_age, !.limit = limit]

\* A finished call hands its result to its caller before any other call
\* runs its next statement: the result is kept for that one step only.
NoResultPending == run.pc # "done" /\ store.pc # "done"

RunPatternStart(pattern_id, use_cache, max_age, limit) ==
    /\ run.pc = "idle"
    /\ NoResultPending
    /\ \E cached \in (IF use_cache
                      THEN get_pattern_results(cache, pattern_id, max_age, now)
                      ELSE {<<>>}) :
          run' = IF cached # <<>>
                 THEN [CallRun(pattern_id, use_cache, max_age, limit) EXCEPT
                         !.pc = "done", !.outcome = "hit",
                         !.returned = Some(Truncate(cached, limit))]
                 ELSE [CallRun(pattern_id, use_cache, max_age, limit) EXCEPT
                         !.pc = "load"]
    /\ UNCHANGED <<patterns, cache, fundamental_data, signals, now, store,
                   batch, detection>>

\* mutant: a missing pattern is not detected and runs as an empty pattern
RunExecuteUnchecked ==
    /\ run.pc = "load"
    /\ NoResultPending
    /\ IsNone(patterns[run.pattern_id])
    /\ run' = [CallRun(run.pattern_id, FALSE, 0, run.limit) EXCEPT !.pc = "save"]
    /\ UNCHANGED <<patterns, cache, fundamental_data, signals, now, store,
                   batch, detection>>

\* pattern = self.storage.get_pattern(pattern_id), ValueError if None; then
\* (the arguments of the cache lookup are not needed past it)
\* results = self._score_results(self._execute_pattern(pattern), pattern)
RunExecute ==
    /\ run.pc = "load"
    /\ NoResultPending
    /\ IF IsNone(patterns[run.pattern_id])
       THEN run' = [run EXCEPT !.pc = "done", !.outcome = "PatternNotFound"]
       ELSE LET pat == Val(patterns[run.pattern_id])
                fc == pat.fundamental_criteria
                tc == pat.technical_criteria
            IN \E f \in (IF fc # {} THEN _screen_fundamentals(fc, fundamental_data)
                         ELSE {<<>>}),
                  q \in (IF tc.keys # {} /\ RequiredSignals(tc) # <<>>
                         THEN SignalQuery(MinStrength(tc), signals, Today) ELSE {<<>>}) :
                  run' = [CallRun(run.pattern_id, FALSE, 0, run.limit) EXCEPT
                            !.pc = "save",
                            !.pattern = Some(pat),
                            !.results = _score_results(
                                _execute_pattern(pat, f, _screen_technical(tc, q)), pat)]
    /\ UNCHANGED <<patterns, cache, fundamental_data, signals, now, store,
                   batch, detection>>

\* save_pattern_results, first statement: DELETE ... WHERE pattern_id = ?
\* (opens the transaction; `old` remembers the rows it replaces)
SaveDelete ==
    /\ run.pc = "save"
    /\ NoResultPending
    /\ run' = [run EXCEPT !.pc = "insert", !.old = RowsOf(cache, run.pattern_id),
                          !.inserted = <<>>]
    /\ cache' = AfterUncommittedDelete(cache, run.pattern_id)
    /\ UNCHANGED <<patterns, fundamental_data, signals, now, store, batch,
                   detection>>

\* one INSERT of the loop; the primary key (pattern_id, stock_id) rejects a
\* second row of the same stock and the exception leaves the call
SaveInsert ==
    /\ run.pc = "insert"
    /\ Len(run.inserted) < Len(run.results)
    /\ NoResultPending
    /\ LET row == CacheRow(run.pattern_id, run.results[Len(run.inserted) + 1], now)
       IN run' = IF \E x \in Range(run.inserted) : x.stock_id = row.stock_id
                 THEN [run EXCEPT !.pc = "done", !.outcome = "CacheWriteError",
                                  !.inserted = <<>>]
                 ELSE [run EXCEPT !.inserted = Append(run.inserted, row)]
    /\ UNCHANGED <<patterns, cache, fundamental_data, signals, now, store,
                   batch, detection>>

\* conn.commit(), then run_pattern returns results[:limit]
SaveCommit ==
    /\ run.pc = "insert"
    /\ Len(run.inserted) = Len(run.results)
    /\ NoResultPending
    /\ cache' = Replaced(cache, run.pattern_id, Range(run.inserted))
    /\ run' = [run EXCEPT !.pc = "done", !.outcome = "fresh",
                          !.returned = Some(Truncate(run.results, run.limit))]
    /\ UNCHANGED <<patterns, fundamental_data, signals, now, store, batch,
                   detection>>

\* a statement or the commit of save_pattern_results raises (database
\* locked, disk I/O error): the transaction is rolled back and run_pattern,
\* which has no handler around the save, propagates the exception
SaveFail ==
    /\ run.pc \in {"save", "insert"}
    /\ NoResultPending
    /\ run' = [run EXCEPT !.pc = "done", !.outcome = "CacheWriteError",
                          !.inserted = <<>>]
    /\ UNCHANGED <<patterns, cache, fundamental_data, signals, now, store,
                   batch, detection>>

RunReturn ==
    /\ run.pc = "done"
    /\ run' = IdleRun
    /\ UNCHANGED <<patterns, cache, fundamental_data, signals, now, store,
                   batch, detection>>

\* ----------------------------------------------------- PatternStorage
\* SQLite admits one write transaction at a time: a writer waits (busy
\* timeout) while the save transaction of run_pattern is open
WriteLockFree == run.pc # "insert"

StoreDone(op, pattern_id, outcome) ==
    [pc |-> "done", op |-> op, pattern_id |-> pattern_id, outcome |-> outcome]

\* mutant: is_preset is taken from the input
NewPatternKeepsFlag(data, t) ==
    [pattern_name |-> data.pattern_name,
     technical_criteria |-> data.technical_criteria,
     fundamental_criteria |-> data.fundamental_criteria,
     sort_by |-> data.sort_by,
     is_preset |-> data.is_preset,
     updated_at |-> t]

\* the row create_pattern inserts: is_preset is the literal 0
NewPattern(data, t) ==
    [pattern_name |-> data.pattern_name,
     technical_criteria |-> data.technical_criteria,
     fundamental_criteria |-> data.fundamental_criteria,
     sort_by |-> data.sort_by,
     is_preset |-> FALSE,
     updated_at |-> t]

\* create_pattern: the INSERT hits the PRIMARY KEY of an existing
\* pattern_id (IntegrityError -> ValueError), or commits and the call goes
\* on to clear_pattern_cache
create_pattern(data) ==
    /\ store.pc = "idle"
    /\ NoResultPending
    /\ WriteLockFree
    /\ IF ~IsNone(patterns[data.pattern_id])
       THEN /\ store' = StoreDone("create", data.pattern_id, "DuplicateId")
            /\ UNCHANGED patterns
       ELSE /\ patterns' = [patterns EXCEPT ![data.pattern_id] = Some(NewPattern(data, now))]
            /\ store' = [pc |-> "clear", op |-> "create",
                         pattern_id |-> data.pattern_id, outcome |-> ""]
    /\ UNCHANGED <<cache, fundamental_data, signals, now, run, batch,
                   detection>>

\* the SET clause: only the allowed fields present in updates, plus updated_at
ApplyUpdates(p, updates, t) ==
    [pattern_name |-> p.pattern_name,
     technical_criteria |-> IF "technical_criteria" \in updates.keys
                            THEN updates.technical_criteria ELSE p.technical_criteria,
     fundamental_criteria |-> IF "fundamental_criteria" \in updates.keys
                              THEN updates.fundamental_criteria ELSE p.fundamental_criteria,
     sort_by |-> IF "sort_by" \in updates.keys THEN updates.sort_by ELSE p.sort_by,
     is_preset |-> p.is_preset,
     updated_at |-> t]

\* mutant: the preset check is left out
UpdateOutcomeNoPresetCheck(p, updates) ==
    IF IsNone(p) THEN "False"
    ELSE IF updates.keys \cap allowed_fields = {} THEN "False"
    ELSE "write"

\* mutant: a missing pattern is reported as updated
UpdateOutcomeMissingIsSuccess(p, updates) ==
    IF IsNone(p) THEN "True"
    ELSE IF Val(p).is_preset THEN "PresetImmutable"
    ELSE IF updates.keys \cap allowed_fields = {} THEN "False"
    ELSE "write"

\* update_pattern up to its early returns: not found -> False, preset ->
\* ValueError, no allowed field in updates -> False
UpdateOutcome(p, updates) ==
    IF IsNone(p) THEN "False"
    ELSE IF Val(p).is_preset THEN "PresetImmutable"
    ELSE IF updates.keys \cap allowed_fields = {} THEN "False"
    ELSE "write"

update_pattern(pattern_id, updates) ==
    /\ store.pc = "idle"
    /\ NoResultPending
    /\ LET p == patterns[pattern_id]
           out == UpdateOutcome(p, updates)
       IN IF out # "write"
          THEN /\ store' = StoreDone("update", pattern_id, out)
               /\ UNCHANGED patterns
          ELSE /\ WriteLockFree
               /\ patterns' = [patterns EXCEPT
                                 ![pattern_id] = Some(ApplyUpdates(Val(p), updates, now))]
               /\ store' = [pc |-> "clear", op |-> "update",
                            pattern_id |-> pattern_id, outcome |-> ""]
    /\ UNCHANGED <<cache, fundamental_data, signals, now, run, batch,
                   detection>>

\* delete_pattern: not found -> False, preset -> ValueError, otherwise
\* DELETE FROM screening_patterns (the cascade only with foreign keys on)
DeleteOutcome(p) ==
    IF IsNone(p) THEN "False"
    ELSE IF Val(p).is_preset THEN "PresetImmutable"
    ELSE "write"

delete_pattern(pattern_id) ==
    /\ store.pc = "idle"
    /\ NoResultPending
    /\ LET out == DeleteOutcome(patterns[pattern_id])
       IN IF out # "write"
          THEN /\ store' = StoreDone("delete", pattern_id, out)
               /\ UNCHANGED <<patterns, cache>>
          ELSE /\ WriteLockFree
               /\ patterns' = [patterns EXCEPT ![pattern_id] = None]
               /\ cache' = IF ForeignKeys THEN WithoutPattern(cache, pattern_id) ELSE cache
               /\ store' = StoreDone("delete", pattern_id, "True")
    /\ UNCHANGED <<fundamental_data, signals, now, run, batch, detection>>

\* clear_pattern_cache(pattern_id), the last call of create and update, in
\* a transaction of its own
clear_pattern_cache ==
    /\ store.pc = "clear"
    /\ NoResultPending
    /\ WriteLockFree
    /\ cache' = WithoutPattern(cache, store.pattern_id)
    /\ store' = StoreDone(store.op, store.pattern_id, "True")
    /\ UNCHANGED <<patterns, fundamental_data, signals, now, run, batch,
                   detection>>

StoreReturn ==
    /\ store.pc = "done"
    /\ store' = IdleStore
    /\ UNCHANGED <<patterns, cache, fundamental_data, signals, now, run,
                   batch, detection>>

\* the PUT /api/patterns/<pattern_id> handler on the outcome of
\* storage.update_pattern: the pattern (200), 404 on a falsy return, 400 on
\* ValueError
web_update_status(outcome) ==
    IF outcome = "True" THEN 200
    ELSE IF outcome = "False" THEN 404
    ELSE 400

\* ------------------------------------------------------- the environment
\* an hour passes; a save transaction is far shorter than an hour
Tick ==
    /\ now < MaxClock
    /\ run.pc # "insert"
    /\ NoResultPending
    /\ now' = now + 1
    /\ UNCHANGED <<patterns, cache, fundamental_data, signals, run, store,
                   batch, detection>>

Next ==
    \/ \E id \in PatternIds, uc \in BOOLEAN, age \in CacheAges, lim \in Limits :
          RunPatternStart(id, uc, age, lim)
    \/ RunExecute
    \/ SaveDelete
    \/ SaveInsert
    \/ SaveCommit
    \/ SaveFail
    \/ RunReturn
    \/ \E data \in PatternInputs : create_pattern(data)
    \/ \E id \in PatternIds, u \in UpdateInputs : update_pattern(id, u)
    \/ \E id \in PatternIds : delete_pattern(id)
    \/ clear_pattern_cache
    \/ StoreReturn
    \/ Tick

Spec == Init /\ [][Next]_vars

\* ============================================ screening and scoring
\* The same engine and store over wider data: several quarterly reports of
\* one instrument, NULL metrics, several signals of one instrument, signals
\* that are old, weak or inactive, and patterns of every shape. Patterns
\* are created and run; none is updated or deleted.

Report(sid, period, pe, pb) ==
    [stock_id |-> sid, period |-> period, pe_ratio |-> pe, pb_ratio |-> pb]

\* one report per instrument, as fetched for the latest quarter
LatestReports == {Report(sid, 1, Some(PeOf(sid)), Some(sid)) : sid \in Stocks}

\* contents of fundamental_data: complete reports; a report without
\* pb_ratio; a later report of instrument 1 with a higher pe_ratio; a report
\* without pe_ratio
FundamentalTables ==
    { LatestReports,
      {Report(sid, 1, Some(PeOf(sid)), IF sid = 1 THEN None ELSE Some(sid)) : sid \in Stocks},
      LatestReports \cup {Report(1, 2, Some(30), Some(1))},
      {Report(sid, 1, IF sid = 1 THEN None ELSE Some(PeOf(sid)), Some(sid)) : sid \in Stocks} }

SignalRow(id, sid, name, strength, active, date) ==
    [id |-> id, stock_id |-> sid, signal_name |-> name, strength |-> strength,
     is_active |-> active, detected_date |-> date]

\* contents of signals (strengths as the detectors emit them): two signals
\* on instrument 1 and a weak one on the others; an old and an inactive
\* signal on instrument 1; a name no pattern asks for on instrument 1; one
\* strong signal on every instrument
SignalTables ==
    { {SignalRow(1, 1, GoldenCross, 60, TRUE, 0), SignalRow(2, 1, RSIOversold, 65, TRUE, 0)}
        \cup {SignalRow(sid + 1, sid, RSIOversold, 45, TRUE, 0) : sid \in Stocks \ {1}},
      {SignalRow(1, 1, GoldenCross, 90, TRUE, 0 - RecencyDays),
       SignalRow(2, 1, RSIOversold, 75, FALSE, 0)}
        \cup {SignalRow(sid + 1, sid, RSIOversold, 60, TRUE, 0) : sid \in Stocks \ {1}},
      {SignalRow(1, 1, DeathCross, 60, TRUE, 0)}
        \cup {SignalRow(sid, sid, GoldenCross, 80, TRUE, 0) : sid \in Stocks \ {1}},
      {SignalRow(sid, sid, IF sid = 1 THEN GoldenCross ELSE RSIOversold,
                 IF sid = 1 THEN 90 ELSE 60, TRUE, 0) : sid \in Stocks} }

\* a technical block that carries a strength floor and no 'signals' key
FloorOnly(minStrength) ==
    [keys |-> {"min_signal_strength"}, signals |-> <<>>,
     min_signal_strength |-> minStrength]

\* pattern_data dicts of every shape handed to create_pattern
ScreenPatternInputs ==
    { PatternData("my_pattern", "Value", NoTechnical,
                  {Bound("pe_ratio", Some(0), Some(25))}, "match_score", FALSE),
      PatternData("my_pattern", "Reversal", Technical(<<FragGoldenCross, FragRSI>>, 50),
                  {}, "match_score", FALSE),
      PatternData("my_pattern", "Quality Reversal",
                  Technical(<<FragGoldenCross, FragRSI>>, 50),
                  {Bound("pe_ratio", Some(0), None)}, "pe_ratio", FALSE),
      PatternData("my_pattern", "Quality Floor", FloorOnly(50),
                  {Bound("pe_ratio", Some(0), Some(25))}, "stock_id", FALSE),
      PatternData("my_pattern", "Two Metrics", NoTechnical,
                  {Bound("pe_ratio", Some(0), None),
                   Bound("pb_ratio", None, Some(Sentinel999))}, "pb_ratio", FALSE),
      PatternData("my_pattern", "Inverted", NoTechnical,
                  {Bound("pe_ratio", Some(25), Some(0))}, "match_score", FALSE) }

ScreenInit ==
    /\ patterns = [id \in PatternIds |-> IF id \in PresetIds THEN Some(GarpPreset) ELSE None]
    /\ cache = {}
    /\ fundamental_data \in FundamentalTables
    /\ signals \in SignalTables
    /\ now = 0
    /\ run = IdleRun
    /\ store = IdleStore
    /\ batch = IdleBatch
    /\ detection = NoDetection

ScreenNext ==
    \/ \E data \in ScreenPatternInputs : create_pattern(data)
    \/ clear_pattern_cache
    \/ StoreReturn
    \/ \E id \in PatternIds, uc \in BOOLEAN, lim \in Limits :
          RunPatternStart(id, uc, HoursPerDay, lim)
    \/ RunExecute
    \/ SaveDelete
    \/ SaveInsert
    \/ SaveCommit
    \/ SaveFail
    \/ RunReturn

ScreenSpec == ScreenInit /\ [][ScreenNext]_vars

\* ================================================== batch detection
\* SignalEngine.detect_signals_for_all_stocks: one step reads the stocks and
\* deactivates old signals, one step per instrument of the loop, one step
\* returns the statistics. Every INSERT of a signal commits by itself.
MaxSignals == 3

\* config 'signals.signal_expiry_days', default
ExpiryDays == 5

\* mutant: the signals of exactly `days` days ago are deactivated too
DeactivateFromExpiryDay(tbl, days, today) ==
    {IF x.is_active /\ x.detected_date <= today - days
     THEN [x EXCEPT !.is_active = FALSE] ELSE x : x \in tbl}

\* UPDATE signals SET is_active = FALSE
\* WHERE is_active = TRUE AND detected_date < date('now', '-5 days')
deactivate_old_signals(tbl, days, today) ==
    {IF x.is_active /\ x.detected_date < today - days
     THEN [x EXCEPT !.is_active = FALSE] ELSE x : x \in tbl}

\* get_signals(stock_id, active_only=True, limit=1), as a truth value
HasActiveSignal(tbl, sid) == \E x \in tbl : x.stock_id = sid /\ x.is_active

\* what the four detectors can find on the latest bar of an instrument
Detection(name, strength) == [signal_name |-> name, strength |-> strength]
Detections ==
    { <<>>,
      <<Detection(GoldenCross, 60)>>,
      <<Detection(GoldenCross, 60), Detection(RSIOversold, 65)>> }

\* id INTEGER PRIMARY KEY AUTOINCREMENT
NextSignalId(tbl) ==
    IF tbl = {} THEN 1
    ELSE (CHOOSE m \in {x.id : x \in tbl} : \A x \in tbl : x.id <= m) + 1

\* _store_signals over the first `upto` detected signals: insert_signal
\* stores a row with is_active TRUE, or logs its error and returns False
\* (the positions in `lost`)
RECURSIVE _store_signals(_, _, _, _, _, _)
_store_signals(tbl, sid, detected, upto, lost, today) ==
    IF upto = 0 THEN tbl
    ELSE LET before == _store_signals(tbl, sid, detected, upto - 1, lost, today)
         IN IF upto \in lost THEN before
            ELSE before \cup {SignalRow(NextSignalId(before), sid,
                                        detected[upto].signal_name,
                                        detected[upto].strength, TRUE, today)}

\* mutant: the exception of one instrument leaves the loop and the call
FailureAborts(b, sid) ==
    [b EXCEPT !.pc = "done", !.stats.failed = @ + 1, !.failures = @ \cup {sid}]

\* except Exception: the error is logged and counted, the loop goes on
FailureCounted(b, sid) ==
    [b EXCEPT !.i = @ + 1, !.stats.failed = @ + 1, !.failures = @ \cup {sid}]

Skipped(b) == [b EXCEPT !.i = @ + 1, !.stats.skipped = @ + 1]

Succeeded(b, detected) ==
    [b EXCEPT !.i = @ + 1, !.stats.successful = @ + 1,
              !.stats.total_signals = @ + Len(detected)]

\* the call starts: stocks = get_all_stocks(active_only=True)[:limit] (no
\* ORDER BY: any order), deactivate_old_signals(expiry_days), stats zeroed
DetectAllStart(limit, skip_existing) ==
    /\ batch.pc = "idle"
    /\ \E order \in Orderings(Stocks) :
          batch' = [pc |-> "loop",
                    stocks |-> IF limit = 0 THEN order ELSE Truncate(order, limit),
                    i |-> 0,
                    skip_existing |-> skip_existing,
                    failures |-> {},
                    stats |-> [NoStats EXCEPT
                                 !.total_stocks =
                                    Len(IF limit = 0 THEN order ELSE Truncate(order, limit))]]
    /\ signals' = deactivate_old_signals(signals, ExpiryDays, Today)
    /\ UNCHANGED <<patterns, cache, fundamental_data, now, run, store,
                   detection>>

\* one iteration whose try block raises: in get_signals, in the detectors
\* (a malformed series), or in _store_signals after `stored` of the
\* detected signals were inserted (json.dumps of the metadata)
DetectFails ==
    /\ batch.pc = "loop"
    /\ batch.i < Len(batch.stocks)
    /\ LET sid == batch.stocks[batch.i + 1]
       IN /\ batch' = FailureCounted(batch, sid)
          /\ \/ UNCHANGED signals
             \/ /\ ~(batch.skip_existing /\ HasActiveSignal(signals, sid))
                /\ \E detected \in Detections, stored \in 1..2 :
                      /\ stored < Len(detected)
                      /\ Cardinality(signals) + stored <= MaxSignals
                      /\ signals' = _store_signals(signals, sid, detected, stored, {}, Today)
    /\ UNCHANGED <<patterns, cache, fundamental_data, now, run, store,
                   detection>>

\* one iteration that skips the instrument: skip_existing and an active
\* signal of the instrument exists
DetectSkips ==
    /\ batch.pc = "loop"
    /\ batch.i < Len(batch.stocks)
    /\ batch.skip_existing
    /\ HasActiveSignal(signals, batch.stocks[batch.i + 1])
    /\ batch' = Skipped(batch)
    /\ UNCHANGED <<patterns, cache, fundamental_data, signals, now, run,
                   store, detection>>

\* one iteration that detects (possibly nothing) and stores what it found
DetectSucceeds ==
    /\ batch.pc = "loop"
    /\ batch.i < Len(batch.stocks)
    /\ LET sid == batch.stocks[batch.i + 1]
       IN /\ ~(batch.skip_existing /\ HasActiveSignal(signals, sid))
          /\ \E detected \in Detections, lost \in SUBSET (1..2) :
                /\ lost \subseteq DOMAIN detected
                /\ Cardinality(signals) + Len(detected) <= MaxSignals
                /\ signals' = _store_signals(signals, sid, detected, Len(detected),
                                             lost, Today)
                /\ batch' = Succeeded(batch, detected)
    /\ UNCHANGED <<patterns, cache, fundamental_data, now, run, store,
                   detection>>

\* the loop is over: the summary is logged and stats returned
DetectAllEnd ==
    /\ batch.pc = "loop"
    /\ batch.i = Len(batch.stocks)
    /\ batch' = [batch EXCEPT !.pc = "done"]
    /\ UNCHANGED <<patterns, cache, fundamental_data, signals, now, run,
                   store, detection>>

DetectAllReturn ==
    /\ batch.pc = "done"
    /\ batch' = IdleBatch
    /\ UNCHANGED <<patterns, cache, fundamental_data, signals, now, run,
                   store, detection>>

DetectInit ==
    /\ patterns = [id \in PatternIds |-> IF id \in PresetIds THEN Some(GarpPreset) ELSE None]
    /\ cache = {}
    /\ fundamental_data = LatestReports
    /\ signals \in {{}, {SignalRow(1, 1, GoldenCross, 90, TRUE, 0 - RecencyDays)},
                     {SignalRow(1, 1, RSIOversold, 60, TRUE, 0)}}
    /\ now = 0
    /\ run = IdleRun
    /\ store = IdleStore
    /\ batch = IdleBatch
    /\ detection = NoDetection

DetectNext ==
    \/ \E limit \in 0..NumStocks, skip_existing \in BOOLEAN :
          DetectAllStart(limit, skip_existing)
    \/ DetectFails
    \/ DetectSkips
    \/ DetectSucceeds
    \/ DetectAllEnd
    \/ DetectAllReturn

DetectSpec == DetectInit /\ [][DetectNext]_vars

\* ================================================== the signal lifecycle
\* The refresh-intraday command of src/api/cli.py: it reads the stocks,
\* deactivates the old signals, then detects and stores the signals of every
\* instrument. Days pass between the runs. The counters of the
\* summary the command prints are left out but for total_stocks.
MaxDay == 6

\* the signals table of the lifecycle runs holds at most MaxStored rows
MaxStored == 2

\* how many days before today the last bar of an instrument is: the first
\* step of the command has updated the prices up to today
BarAges == {0}

\* get_signals(stock_id, active_only): the rows the SELECT returns (their
\* order, detected_date DESC then strength DESC, is left out; LIMIT 100 is
\* above every table of the model)
get_signals(tbl, sid, active_only) ==
    {x \in tbl : x.stock_id = sid /\ (active_only => x.is_active)}

\* refresh_intraday up to the start of its detection loop: stocks =
\* get_all_stocks(active_only=True)[:limit] (no ORDER BY: any order), the
\* summary zeroed, deactivate_old_signals(expiry_days)
RefreshStart(limit) ==
    /\ batch.pc = "idle"
    /\ \E order \in Orderings(Stocks) :
          batch' = [IdleBatch EXCEPT
                      !.pc = "refresh",
                      !.stocks = IF limit = 0 THEN order ELSE Truncate(order, limit),
                      !.stats.total_stocks =
                          Len(IF limit = 0 THEN order ELSE Truncate(order, limit))]
    /\ signals' = deactivate_old_signals(signals, ExpiryDays, Today)
    /\ UNCHANGED <<patterns, cache, fundamental_data, now, run, store,
                   detection>>

\* one iteration of the detection loop: detect_signals_for_stock(stock_id,
\* store=True) detects on the series of the instrument and inserts every
\* signal with the date of its last bar; an insert that fails is logged
\* and dropped (the positions in `lost`)
RefreshDetect ==
    /\ batch.pc = "refresh"
    /\ batch.i < Len(batch.stocks)
    /\ \E detected \in Detections, lost \in SUBSET (1..2), age \in BarAges :
          /\ lost \subseteq DOMAIN detected
          /\ Cardinality(signals) + Len(detected) <= MaxStored
          /\ signals' = _store_signals(signals, batch.stocks[batch.i + 1], detected,
                                       Len(detected), lost, Today - age)
          /\ batch' = [batch EXCEPT !.i = @ + 1]
    /\ UNCHANGED <<patterns, cache, fundamental_data, now, run, store,
                   detection>>

\* one iteration whose detection raises: the error is logged, the loop
\* goes on
RefreshDetectFails ==
    /\ batch.pc = "refresh"
    /\ batch.i < Len(batch.stocks)
    /\ batch' = [batch EXCEPT !.i = @ + 1]
    /\ UNCHANGED <<patterns, cache, fundamental_data, signals, now, run,
                   store, detection>>

\* the loop is over: the summary is printed and the command ends
RefreshEnd ==
    /\ batch.pc = "refresh"
    /\ batch.i = Len(batch.stocks)
    /\ batch' = IdleBatch
    /\ UNCHANGED <<patterns, cache, fundamental_data, signals, now, run,
                   store, detection>>

\* midnight between two runs of the command: date('now') moves to the next
\* day
DayPasses ==
    /\ batch.pc = "idle"
    /\ Today < MaxDay
    /\ now' = now + HoursPerDay
    /\ UNCHANGED <<patterns, cache, fundamental_data, signals, run, store,
                   batch, detection>>

RefreshInit ==
    /\ patterns = [id \in PatternIds |-> IF id \in PresetIds THEN Some(GarpPreset) ELSE None]
    /\ cache = {}
    /\ fundamental_data = LatestReports
    /\ signals \in {{}, {SignalRow(1, 1, GoldenCross, 60, TRUE, 0)}}
    /\ now = 0
    /\ run = IdleRun
    /\ store = IdleStore
    /\ batch = IdleBatch
    /\ detection = NoDetection

RefreshNext ==
    \/ \E limit \in 0..NumStocks : RefreshStart(limit)
    \/ RefreshDetect
    \/ RefreshDetectFails
    \/ RefreshEnd
    \/ DayPasses

RefreshSpec == RefreshInit /\ [][RefreshNext]_vars

\* ============================================== the detectors applied
\* ---- one detector applied to one frame
\* the call of detect() on the frame ends with one of its outcomes
TrendDetect ==
    /\ detection.detector = ""
    /\ \E outcome \in TrendSignalDetector_detect(detection.df) :
          detection' = [detection EXCEPT !.detector = "trend", !.out = outcome]
    /\ UNCHANGED <<patterns, cache, fundamental_data, signals, now, run, store, batch>>

MomentumDetect ==
    /\ detection.detector = ""
    /\ \E outcome \in MomentumSignalDetector_detect(detection.df) :
          detection' = [detection EXCEPT !.detector = "momentum", !.out = outcome]
    /\ UNCHANGED <<patterns, cache, fundamental_data, signals, now, run, store, batch>>

VolatilityDetect ==
    /\ detection.detector = ""
    /\ \E outcome \in VolatilitySignalDetector_detect(detection.df) :
          detection' = [detection EXCEPT !.detector = "volatility", !.out = outcome]
    /\ UNCHANGED <<patterns, cache, fundamental_data, signals, now, run, store, batch>>

VolumeDetect ==
    /\ detection.detector = ""
    /\ \E outcome \in VolumeSignalDetector_detect(detection.df) :
          detection' = [detection EXCEPT !.detector = "volume", !.out = outcome]
    /\ UNCHANGED <<patterns, cache, fundamental_data, signals, now, run, store, batch>>

DetectorInit ==
    /\ patterns = [id \in PatternIds |-> IF id \in PresetIds THEN Some(GarpPreset) ELSE None]
    /\ cache = {}
    /\ fundamental_data = LatestReports
    /\ signals = {}
    /\ now = 0
    /\ run = IdleRun
    /\ store = IdleStore
    /\ batch = IdleBatch
    /\ \E df \in Frames : detection = [NoDetection EXCEPT !.df = df]

DetectorNext ==
    \/ TrendDetect
    \/ MomentumDetect
    \/ VolatilityDetect
    \/ VolumeDetect

DetectorSpec == DetectorInit /\ [][DetectorNext]_vars

\* ======================================================= the claims
\* the ranked list a caller compares: instruments, order and match_score
Ranked(list) == [i \in DOMAIN list |-> <<list[i].stock_id, list[i].match_score>>]

\* the instruments and scores a set of cache rows holds
Held(rows) == {<<r.stock_id, r.match_score>> : r \in rows}

\* the rows of pattern_id younger than max_age hours
FreshRows(pattern_id, max_age) ==
    {r \in cache : r.pattern_id = pattern_id /\ now - r.last_updated < max_age}

\* C1: after delete(pattern_id) succeeds on a custom pattern the cache holds
\* no row for that pattern_id, so a later cache lookup returns nothing.
C1_DeleteClearsCache ==
    (store.pc = "done" /\ store.op = "delete" /\ store.outcome = "True")
        => \A r \in cache : r.pattern_id # store.pattern_id

\* C2: a run_pattern call with use_cache whose lookup finds fresh rows
\* returns exactly the first `limit` of them in descending match_score, is
\* finished in that one step (no pattern lookup, no screening) and leaves
\* the pattern table and the cache as they were, whether or not the
\* pattern still exists.
C2_CacheHitShortCircuits ==
    [][(run.pc = "idle" /\ run'.pc # "idle" /\ run'.use_cache
        /\ FreshRows(run'.pattern_id, run'.max_age) # {})
       => LET fresh == FreshRows(run'.pattern_id, run'.max_age)
              ret == Val(run'.returned)
              n == IF Cardinality(fresh) < run'.limit
                   THEN Cardinality(fresh) ELSE run'.limit
          IN /\ run'.pc = "done"
             /\ run'.outcome = "hit"
             /\ run'.results = <<>>
             /\ ~IsNone(run'.returned)
             /\ Len(ret) = n
             /\ Range(ret) \subseteq fresh
             /\ \A i \in 1..n : \A r \in fresh \ {ret[j] : j \in 1..i} :
                    ret[i].match_score >= r.match_score
             /\ patterns' = patterns
             /\ cache' = cache]_vars

\* a cache hit for a pattern that is no longer in the store, with more
\* cached rows than the limit
C2_Witness ==
    /\ run.pc = "done"
    /\ run.outcome = "hit"
    /\ IsNone(patterns[run.pattern_id])
    /\ Len(Val(run.returned)) = run.limit
    /\ Cardinality(FreshRows(run.pattern_id, run.max_age)) > run.limit

\* C3: the list a fresh run returns and the list the next call with
\* use_cache=True reads from the cache (same limit, nothing changed in
\* between, inside the cache window) are the same ranked list.
C3_CachedEqualsFresh ==
    (run.pc = "done" /\ run.outcome = "fresh")
        => \A age \in CacheAges :
             \A cached \in get_pattern_results(cache, run.pattern_id, age, now) :
                cached # <<>> =>
                    Ranked(Truncate(cached, run.limit)) = Ranked(Val(run.returned))

\* C4: while save_pattern_results is between its DELETE and its commit, a
\* get_pattern_results of another connection for that pattern_id reads
\* either the complete old result set or the complete new one, never an
\* emptied or partly inserted set.
C4_ReplaceIsAtomic ==
    run.pc = "insert"
        => \A age \in CacheAges :
             \A seen \in get_pattern_results(cache, run.pattern_id, age, now) :
                \/ Range(seen) = {r \in run.old : now - r.last_updated < age}
                \/ Held(Range(seen)) = Held(Range(run.results))

\* the transaction has deleted two old rows and inserted one of two new ones
C4_Witness ==
    /\ run.pc = "insert"
    /\ Cardinality(run.old) = 2
    /\ Len(run.results) = 2
    /\ Len(run.inserted) = 1
    /\ Held(run.old) # Held(Range(run.results))

\* C5: when the results of a fresh run are computed and ranked and the
\* cache write then fails, run_pattern still returns the top `limit` of
\* the computed results.
C5_WriteFailureKeepsResults ==
    (run.pc = "done" /\ run.outcome = "CacheWriteError")
        => /\ ~IsNone(run.returned)
           /\ Val(run.returned) = Truncate(run.results, run.limit)

\* C6: the commit that ends a fresh run leaves, for its pattern_id, exactly
\* one cache row per result of this run (all of them, not only the first
\* `limit`, and none of an earlier run), and leaves the rows of every
\* other pattern_id as they were.
C6_FreshRunReplacesCache ==
    [][(run.pc = "insert" /\ run'.pc = "done" /\ run'.outcome = "fresh")
       => /\ Held({r \in cache' : r.pattern_id = run.pattern_id})
                = {<<x.stock_id, x.match_score>> : x \in Range(run.results)}
          /\ Cardinality({r \in cache' : r.pattern_id = run.pattern_id})
                = Len(run.results)
          /\ {r \in cache' : r.pattern_id # run.pattern_id}
                = {r \in cache : r.pattern_id # run.pattern_id}]_vars

\* a fresh run with more results than its limit has replaced rows of an
\* earlier run that it does not produce itself, next to another pattern's rows
C6_Witness ==
    /\ run.pc = "done"
    /\ run.outcome = "fresh"
    /\ Len(run.results) > run.limit
    /\ ~(Held(run.old) \subseteq Held(Range(run.results)))
    /\ \E r \in cache : r.pattern_id # run.pattern_id

\* C7: the step of run_pattern that loads a pattern_id absent from the
\* store ends the call with PatternNotFound, returns nothing and writes
\* neither the cache nor the pattern table.
C7_PatternNotFound ==
    [][(run.pc = "load" /\ run' # run /\ IsNone(patterns[run.pattern_id]))
       => /\ run'.pc = "done"
          /\ run'.outcome = "PatternNotFound"
          /\ IsNone(run'.returned)
          /\ cache' = cache
          /\ patterns' = patterns]_vars

\* the call failed although stale rows of the pattern_id are still cached
C7_Witness ==
    /\ run.pc = "done"
    /\ run.outcome = "PatternNotFound"
    /\ \E r \in cache : r.pattern_id = run.pattern_id

\* C8: every step keeps every preset present and unchanged; an update or a
\* delete on a preset ends with PresetImmutable, a create on a preset's id
\* with DuplicateId, and none of them writes the pattern table or the cache.
C8_PresetsImmutable ==
    [][/\ \A id \in PresetIds :
            /\ ~IsNone(patterns'[id])
            /\ patterns'[id] = patterns[id]
            /\ Val(patterns'[id]).is_preset
       /\ (store.pc = "idle" /\ store' # store /\ store'.pattern_id \in PresetIds)
            => /\ store'.pc = "done"
               /\ store'.op \in {"update", "delete"} => store'.outcome = "PresetImmutable"
               /\ store'.op = "create" => store'.outcome = "DuplicateId"
               /\ patterns' = patterns
               /\ cache' = cache]_vars

\* an update of a preset that has cached results was rejected
C8_Witness ==
    /\ store.pc = "done"
    /\ store.op = "update"
    /\ store.pattern_id \in PresetIds
    /\ store.outcome = "PresetImmutable"
    /\ \E r \in cache : r.pattern_id = store.pattern_id

\* C9: a create on an existing pattern_id ends with DuplicateId and leaves
\* the pattern table and the cache unchanged; a create on a free id stores
\* the pattern with is_preset false.
C9_CreateDuplicateOrCustom ==
    [][(store.pc = "idle" /\ store' # store /\ store'.op = "create")
       => IF ~IsNone(patterns[store'.pattern_id])
          THEN /\ store'.pc = "done"
               /\ store'.outcome = "DuplicateId"
               /\ patterns' = patterns
               /\ cache' = cache
          ELSE /\ ~IsNone(patterns'[store'.pattern_id])
               /\ ~Val(patterns'[store'.pattern_id]).is_preset]_vars

\* a create was rejected for a custom pattern_id that has cached results
C9_Witness ==
    /\ store.pc = "done"
    /\ store.op = "create"
    /\ store.outcome = "DuplicateId"
    /\ store.pattern_id \in CustomIds
    /\ \E r \in cache : r.pattern_id = store.pattern_id

\* C10: an update on a pattern_id that is not in the store ends with the
\* not-found outcome (False, HTTP 404), which is not the outcome of a
\* successful update (True, HTTP 200), and changes neither table.
C10_UpdateMissing ==
    [][(store.pc = "idle" /\ store' # store /\ store'.op = "update"
        /\ IsNone(patterns[store'.pattern_id]))
       => /\ store'.pc = "done"
          /\ store'.outcome = "False"
          /\ web_update_status(store'.outcome) = 404
          /\ patterns' = patterns
          /\ cache' = cache]_vars

\* an update of a missing pattern_id that still has cached rows was refused
C10_Witness ==
    /\ store.pc = "done"
    /\ store.op = "update"
    /\ store.outcome = "False"
    /\ IsNone(patterns[store.pattern_id])
    /\ \E r \in cache : r.pattern_id = store.pattern_id

\* C11: every update call on an existing custom pattern, whatever fields it
\* carries (none, or none of the recognised ones, included), sets the
\* pattern's updated_at to the time of the call in its first step, and has
\* left no cache row of that pattern_id when it returns.
C11_UpdateRefreshesAndClears ==
    [][/\ (/\ store.pc = "idle" /\ store' # store /\ store'.op = "update"
            /\ ~IsNone(patterns[store'.pattern_id])
            /\ ~Val(patterns[store'.pattern_id]).is_preset)
           => /\ ~IsNone(patterns'[store'.pattern_id])
              /\ Val(patterns'[store'.pattern_id]).updated_at = now
       /\ (/\ store.pc # "done" /\ store'.pc = "done" /\ store'.op = "update"
            /\ ~IsNone(patterns[store'.pattern_id])
            /\ ~Val(patterns[store'.pattern_id]).is_preset)
           => RowsOf(cache', store'.pattern_id) = {}]_vars

\* ---- claims on screening and scoring, checked under ScreenSpec
\* the pattern a run has executed (no pattern is changed under ScreenSpec)
Executed == Val(patterns[run.pattern_id])

\* the results of a fresh run are computed and ranked, the save is to come
ResultsReady == run.pc = "save" /\ ~IsNone(patterns[run.pattern_id])

DeclaresFundamental(p) == p.fundamental_criteria # {}
DeclaresTechnical(p) == p.technical_criteria.keys # {}

\* C12: for a pattern that declares both blocks every result has
\* match_score = round(0.6*F + 0.4*T), the nearest integer (0.6*F + 0.4*T
\* is a multiple of 0.2, so it is never half way between two integers).
C12_WeightedScoreIsRounded ==
    (ResultsReady /\ DeclaresFundamental(Executed) /\ DeclaresTechnical(Executed))
        => \A r \in Range(run.results) :
              r.match_score
                  = (6 * r.fundamental_score + 4 * r.technical_score + 5) \div 10

\* C13: for a pattern that declares exactly one block every result's
\* match_score is the score of that block: the fundamental score, which is
\* the fixed 80, for a fundamentals-only pattern, the technical score for a
\* technical-only pattern.
C13_SingleBlockScore ==
    ResultsReady
        => /\ (DeclaresFundamental(Executed) /\ ~DeclaresTechnical(Executed))
                => \A r \in Range(run.results) :
                      /\ r.match_score = r.fundamental_score
                      /\ r.match_score = 80
           /\ (DeclaresTechnical(Executed) /\ ~DeclaresFundamental(Executed))
                => \A r \in Range(run.results) :
                      r.match_score = r.technical_score

\* a technical-only pattern has a result whose technical score is not 80,
\* while the cache holds the rows of a fundamentals-only pattern
C13_Witness ==
    /\ ResultsReady
    /\ DeclaresTechnical(Executed) /\ ~DeclaresFundamental(Executed)
    /\ \E r \in Range(run.results) : r.technical_score > 0 /\ r.technical_score # 80
    /\ \E c \in cache : c.pattern_id \in PresetIds /\ c.match_score = 80

\* the instruments of the fundamental matches and of the technical matches
\* of a pattern over the tables as they are
FundamentalStocks(p) ==
    {m.stock_id : m \in FundamentalMatches(p.fundamental_criteria, fundamental_data)}

TechnicalStocks(p) ==
    UNION {{t.stock_id : t \in Range(_screen_technical(p.technical_criteria, q))} :
             q \in SignalQuery(MinStrength(p.technical_criteria), signals, Today)}

ResultStocks == {r.stock_id : r \in Range(run.results)}

\* C14: for a pattern with both blocks whose technical block lists signals,
\* the instruments of the results are exactly those in the fundamental
\* matches and in the technical matches: one that passed only the
\* fundamentals or only the technical screen is not returned, one that
\* passed both is.
C14_CombinedRequiresBoth ==
    (/\ ResultsReady
     /\ DeclaresFundamental(Executed) /\ DeclaresTechnical(Executed)
     /\ RequiredSignals(Executed.technical_criteria) # <<>>)
        => ResultStocks = FundamentalStocks(Executed) \cap TechnicalStocks(Executed)

\* a combined pattern returned an instrument and dropped another one that
\* had passed the fundamentals without a technical match
C14_Witness ==
    /\ ResultsReady
    /\ DeclaresFundamental(Executed) /\ DeclaresTechnical(Executed)
    /\ RequiredSignals(Executed.technical_criteria) # <<>>
    /\ run.results # <<>>
    /\ FundamentalStocks(Executed) \ TechnicalStocks(Executed) # {}

\* the signals an instrument holds (active) that were detected inside the
\* recency window and reach the strength floor of the pattern
QualifyingSignals(sid, p) ==
    {x \in signals : /\ x.stock_id = sid
                      /\ x.is_active
                      /\ x.detected_date > Today - RecencyDays
                      /\ x.strength >= MinStrength(p.technical_criteria)}

RECURSIVE StrengthSum(_)
StrengthSum(S) ==
    IF S = {} THEN 0
    ELSE LET x == CHOOSE y \in S : TRUE IN x.strength + StrengthSum(S \ {x})

\* one of the qualifying signals carries a name the pattern asks for
AsksFor(sid, p) ==
    \E x \in QualifyingSignals(sid, p) :
        \E k \in DOMAIN p.technical_criteria.signals :
            IsSubstring(LowerStr(p.technical_criteria.signals[k]), LowerStr(x.signal_name))

\* C15: the technical_score of an instrument in the technical matches is
\* the arithmetic mean of the strengths of its qualifying signals (score
\* times their number equals their sum); an instrument without a
\* qualifying signal is not in the technical matches, and every instrument
\* with a qualifying signal the pattern asks for is.
C15_TechnicalScoreIsMean ==
    (/\ ResultsReady
     /\ DeclaresTechnical(Executed) /\ ~DeclaresFundamental(Executed)
     /\ RequiredSignals(Executed.technical_criteria) # <<>>)
        => /\ \A r \in Range(run.results) :
                 /\ QualifyingSignals(r.stock_id, Executed) # {}
                 /\ r.technical_score * Cardinality(QualifyingSignals(r.stock_id, Executed))
                        = StrengthSum(QualifyingSignals(r.stock_id, Executed))
           /\ \A sid \in Stocks : AsksFor(sid, Executed) => sid \in ResultStocks

\* the list a fresh run has returned, the whole of it when the limit allows
FreshReturned == run.pc = "done" /\ run.outcome = "fresh"

\* the sort key of a returned result as the claim reads it: match_score, or
\* the named field of matched_fundamentals with missing and None as 0
ClaimedKey(r, sort_by) ==
    IF sort_by = "match_score" THEN r.match_score
    ELSE IF IsNone(r.matched_fundamentals) THEN 0
    ELSE LET row == Val(r.matched_fundamentals)
         IN IF sort_by \notin DOMAIN row THEN 0
            ELSE IF sort_by \in {"pe_ratio", "pb_ratio"}
                 THEN (IF IsNone(row[sort_by]) THEN 0 ELSE Val(row[sort_by]))
                 ELSE row[sort_by]

\* C16: the list a fresh run returns is in non-increasing order of its sort
\* key (match_score, or the sort_by field of matched_fundamentals with a
\* missing or None value as 0); a run whose sort_by names a field no result
\* has still returns its list.
C16_ReturnedInSortOrder ==
    FreshReturned
        => /\ ~IsNone(run.returned)
           /\ LET ret == Val(run.returned)
                  sort_by == Executed.sort_by
              IN \A i, j \in DOMAIN ret :
                    i < j => ClaimedKey(ret[i], sort_by) >= ClaimedKey(ret[j], sort_by)

\* a fresh run sorted by a fundamental field has returned two results with
\* different keys, in an order that is not the order of their match_score
C16_Witness ==
    /\ FreshReturned
    /\ Executed.sort_by = "pe_ratio"
    /\ Len(Val(run.returned)) >= 2
    /\ ClaimedKey(Val(run.returned)[1], "pe_ratio") > ClaimedKey(Val(run.returned)[2], "pe_ratio")
    /\ Val(run.returned)[1].match_score < Val(run.returned)[2].match_score

\* C17: for every metric named in the fundamental_criteria of the pattern,
\* no instrument of the results has None for that metric, whatever the
\* bounds of the criterion are (both sides, one side, a sentinel, none).
C17_NoneMetricExcluded ==
    (ResultsReady /\ DeclaresFundamental(Executed))
        => \A r \in Range(run.results) :
              \A b \in Executed.fundamental_criteria :
                 /\ ~IsNone(r.matched_fundamentals)
                 /\ ~IsNone(Column(Val(r.matched_fundamentals), b.metric))

\* the latest quarterly report of an instrument (it has at least one)
ReportsOf(sid) == {x \in fundamental_data : x.stock_id = sid}
LatestReport(sid) ==
    CHOOSE x \in ReportsOf(sid) : \A y \in ReportsOf(sid) : y.period <= x.period

\* min <= value and value <= max for each side a criterion declares (a
\* side that is absent, None or the "no limit" sentinel declares nothing)
SatisfiesEveryBound(row, criteria) ==
    \A b \in criteria :
        LET v == Column(row, b.metric) IN
        /\ (~IsNone(b.min)) => (~IsNone(v) /\ Val(b.min) <= Val(v))
        /\ (~IsNone(b.max) /\ Val(b.max) # 999) => (~IsNone(v) /\ Val(v) <= Val(b.max))

\* C18: the fundamental screening (the results of a fundamentals-only
\* pattern) holds an instrument if and only if its latest report satisfies
\* every declared bound, and holds no instrument twice.
C18_LatestSnapshotScreen ==
    (ResultsReady /\ DeclaresFundamental(Executed) /\ ~DeclaresTechnical(Executed))
        => /\ ResultStocks
                = {sid \in Stocks :
                     /\ ReportsOf(sid) # {}
                     /\ SatisfiesEveryBound(LatestReport(sid),
                                            Executed.fundamental_criteria)}
           /\ \A i, j \in DOMAIN run.results :
                 i # j => run.results[i].stock_id # run.results[j].stock_id

\* C19: no stored pattern carries a fundamental criterion whose min is
\* greater than its max: a create with such a criterion fails and stores
\* nothing.
C19_InvertedBoundRejected ==
    \A id \in PatternIds :
        ~IsNone(patterns[id])
            => \A b \in Val(patterns[id]).fundamental_criteria :
                  (~IsNone(b.min) /\ ~IsNone(b.max)) => Val(b.min) <= Val(b.max)

\* ---- claims on batch detection, checked under DetectSpec
\* C20: a failure while detecting the signals of one instrument does not
\* end the batch: the loop always stands after as many instruments as it
\* has counted (successful + failed + skipped), every logged failure is
\* counted, and the call returns only after the last instrument, with
\* successful + failed + skipped = total_stocks.
C20_BatchSurvivesFailures ==
    batch.pc \in {"loop", "done"}
        => /\ batch.stats.total_stocks = Len(batch.stocks)
           /\ batch.stats.successful + batch.stats.failed + batch.stats.skipped
                 = batch.i
           /\ batch.stats.failed = Cardinality(batch.failures)
           /\ batch.pc = "done"
                 => /\ batch.i = Len(batch.stocks)
                    /\ batch.stats.successful + batch.stats.failed
                          + batch.stats.skipped = batch.stats.total_stocks

\* a batch has returned after the first instrument failed and a later one
\* was processed with its signals stored
C20_Witness ==
    /\ batch.pc = "done"
    /\ Len(batch.stocks) >= 2
    /\ batch.stocks[1] \in batch.failures
    /\ batch.stats.successful >= 1
    /\ batch.stats.total_signals >= 1
    /\ \E x \in signals : x.stock_id = batch.stocks[2] /\ x.is_active

\* ---- claims on the signal lifecycle, checked under RefreshSpec
\* the refresh-intraday command has just deactivated the old signals
DeactivationRan == batch.pc = "idle" /\ batch'.pc = "refresh"

C27_OneActiveRowPerSignal ==
    \A x \in signals, y \in signals :
       ( /\ x.is_active /\ y.is_active
         /\ x.stock_id = y.stock_id
         /\ x.signal_name = y.signal_name
         /\ x.detected_date = y.detected_date ) => x.id = y.id

\* ---- claims on the detectors, checked under DetectorSpec
\* the signals the detector call returned
Emitted ==
    IF detection.detector = "" \/ detection.out.raises THEN {}
    ELSE Range(detection.out.value)

EmittedNames == {s.signal_name : s \in Emitted}

CrossedPairs ==
    {pair \in {<<"sma_50", "sma_200">>, <<"macd_line", "macd_signal">>} :
        HasColumn(detection.df, pair[1]) /\ HasColumn(detection.df, pair[2])}

\* C23: at no position of a frame are is_crossover and is_crossunder both
\* true of the same pair of series, and one pass of the trend detector
\* never returns both a Golden Cross and a Death Cross.
C23_CrossesExclusive ==
    /\ \A pair \in CrossedPairs, index \in 0..(Len(detection.df.index) - 1) :
          ~ ( /\ is_crossover(Col(detection.df, pair[1]),
                              Col(detection.df, pair[2]), index)
              /\ is_crossunder(Col(detection.df, pair[1]),
                               Col(detection.df, pair[2]), index) )
    /\ ~ ("Golden Cross" \in EmittedNames /\ "Death Cross" \in EmittedNames)

\* the trend detector has returned a Golden Cross together with a MACD
\* crossover found on the same last bar
C23_Witness ==
    /\ detection.detector = "trend"
    /\ "Golden Cross" \in EmittedNames
    /\ "MACD Bullish Crossover" \in EmittedNames
    /\ is_crossover(Col(detection.df, "sma_50"), Col(detection.df, "sma_200"),
                    Len(detection.df.index) - 1)

\* C24: a detector applied to a frame of fewer than 2 bars returns the empty
\* list, and every signal a detector returns carries the date of the last
\* bar of the frame.
C24_ShortFrameAndLastDate ==
    detection.detector # ""
       => /\ Len(detection.df.index) < 2 => detection.out = Returns(<<>>)
          /\ \A s \in Emitted :
                s.date = detection.df.index[Len(detection.df.index)]

\* the volume detector has returned signals on a frame of 3 bars or more
C24_Witness ==
    /\ detection.detector = "volume"
    /\ Len(detection.df.index) >= 3
    /\ Emitted # {}
    /\ \A s \in Emitted : s.date # detection.df.index[1]

\* C25: no call of a detector's detect() raises, however short the history
\* of the frame is.
C25_DetectNeverRaises == ~detection.out.raises

\* the least-squares slope of a window of the 50-bar average, NaN when the
\* window has no slope
SlopeOf(window) ==
    LET fits == {f \in polyfit_slope(window) : ~f.raises}
    IN IF fits = {} THEN NaN ELSE (CHOOSE f \in fits : TRUE).value

CurrentSlope == SlopeOf(SlopeWindow(detection.df, Len(detection.df.index) - 1))
PriorSlope == SlopeOf(PriorSlopeWindow(detection.df, Len(detection.df.index) - 1))

\* C26: an MA Trend Acceleration signal is returned only when the current
\* and the prior 5-day slope of the 50-bar average have the same sign and
\* the current one exceeds 1.5 times the prior one in that direction.
C26_AccelerationSameSign ==
    /\ "MA Uptrend Acceleration" \in EmittedNames
          => /\ Gt(CurrentSlope, Some(0)) /\ Gt(PriorSlope, Some(0))
             /\ 2 * Val(CurrentSlope) > 3 * Val(PriorSlope)
    /\ "MA Downtrend Acceleration" \in EmittedNames
          => /\ Lt(CurrentSlope, Some(0)) /\ Lt(PriorSlope, Some(0))
             /\ 2 * Val(CurrentSlope) < 3 * Val(PriorSlope)

\* ---- claims on the result list and the cache, checked under ScreenSpec
\* C29: the result list of a fresh run holds each stock_id at most once, and
\* no INSERT of the cache write meets a row of the same stock_id already
\* inserted for the pattern.
C29_OneResultPerStock ==
    run.pc \in {"save", "insert"}
       => /\ \A i \in DOMAIN run.results, j \in DOMAIN run.results :
                run.results[i].stock_id = run.results[j].stock_id => i = j
          /\ \A i \in DOMAIN run.inserted, j \in DOMAIN run.inserted :
                run.inserted[i].stock_id = run.inserted[j].stock_id => i = j
          /\ (run.pc = "insert" /\ Len(run.inserted) < Len(run.results))
                => \A x \in Range(run.inserted) :
                      x.stock_id # run.results[Len(run.inserted) + 1].stock_id

\* every result of a fresh run is inserted, one of them for an instrument
\* with two quarterly reports, both of which the fundamental screen matched
C29_Witness ==
    /\ run.pc = "insert"
    /\ Len(run.results) >= 2
    /\ Len(run.inserted) = Len(run.results)
    /\ ~IsNone(patterns[run.pattern_id])
    /\ \E x \in Range(run.inserted) :
          \E r1 \in fundamental_data, r2 \in fundamental_data :
             /\ r1 # r2
             /\ r1.stock_id = x.stock_id /\ r2.stock_id = x.stock_id
             /\ \A r \in {r1, r2} :
                   \E f \in _screen_fundamentals(
                               Val(patterns[run.pattern_id]).fundamental_criteria,
                               fundamental_data) :
                      \E i \in DOMAIN f : f[i].stock_id = r.stock_id
                                            /\ f[i].pe_ratio = r.pe_ratio

UpdatedSinceLoad ==
    /\ ~IsNone(run.pattern)
    /\ ~IsNone(patterns[run.pattern_id])
    /\ Val(patterns[run.pattern_id]).pattern_name = Val(run.pattern).pattern_name
    /\ \/ Val(patterns[run.pattern_id]).technical_criteria
             # Val(run.pattern).technical_criteria
       \/ Val(patterns[run.pattern_id]).fundamental_criteria
             # Val(run.pattern).fundamental_criteria

\* C28: once a fresh run and an update of its pattern have both completed,
\* the update having committed after the run loaded the pattern, the cache
\* holds no row of the pattern (the rows the run computed were computed
\* from the definition before the update).
C28_NoResultsOfOldDefinition ==
    ( /\ run.pc = "done" /\ run.outcome = "fresh"
      /\ store.pc = "idle"
      /\ UpdatedSinceLoad )
       => RowsOf(cache, run.pattern_id) = {}

====
